---- MODULE Spec2Model ----
(***************************************************************************)
(* Model of the DutchAuction ink! contract (src/lib.rs): its storage, the  *)
(* price schedule linear_decrease / current_price, the messages            *)
(* set_min_price, set_end_time, buy and terminate, and the two PSP22       *)
(* tokens the contract calls.  Integers of type u128 are modelled with a   *)
(* reduced width: every u128 value lies in 0..u128_max, a value that each  *)
(* specification fixes in its initial predicate.                           *)
(***************************************************************************)
EXTENDS Integers, Sequences, FiniteSets, TLC

\* ------------------------------------------------------------- bounds

\* Largest value of the (width-reduced) u128 type, for the whole contract.
U128Max == 3
\* Largest price given to the constructor or to set_min_price.
MaxPrice == 2
\* Largest block number the chain reaches.
MaxBlock == 2
\* Largest block number at which the contract is constructed, when only the
\* schedule is explored.
MaxStart == 1
\* Largest amount asked for in a buy, and the most asset tokens an account
\* holds when the contract is constructed.
MaxAmount == 2
\* Largest block number the chain reaches when only the schedule is explored.
MaxSchedBlock == 6
\* Largest price, and largest value of the u128 type, when only the schedule
\* is explored.
MaxSchedPrice == 4
\* Largest value of the u128 type and largest block number for the schedule
\* start_price = 1000, min_price = 100, start_time = 0, end_time = 100.
ExampleU128Max == 1000
MaxExampleBlock == 120

\* ------------------------------------------------------------- values

Balances == 0..U128Max
Prices == 0..MaxPrice
Blocks == 0..MaxBlock
Amounts == 0..MaxAmount
\* The wider ranges used when only the schedule is explored.
SchedPrices == 0..MaxSchedPrice
SchedBlocks == 0..MaxSchedBlock

\* AccountId values: the deployer, another user, the contract's own account.
OWNER == "owner"
ALICE == "alice"
AUCTION == "auction"
Callers == {OWNER, ALICE}
Accounts == {OWNER, ALICE, AUCTION}

\* Option<Balance>: None is <<>>, Some(v) is <<v>>.
None == <<>>
Some(v) == <<v>>
MaxOpts == {None} \cup {Some(v) : v \in Prices}

\* What a division by zero yields in place of a value: the message traps.
Panic == -1

VARIABLES
    auction_owner, asset_token, payment_token,
    start_price, min_price, start_time, end_time,   \* the contract's storage
    terminated,     \* the contract was removed by terminate_contract
    block,          \* env().block_number()
    asset_bal,      \* balances of the asset token
    pay_bal,        \* balances of the payment token
    pay_allow,      \* payment-token allowance of each caller to the auction
    native_bal,     \* balances of the chain's native currency
    u128_max,       \* u128::MAX
    last            \* the last message: its inputs, its result, what it emitted

storage == <<auction_owner, asset_token, payment_token,
             start_price, min_price, start_time, end_time>>
tokens == <<asset_bal, pay_bal, pay_allow>>
vars == <<storage, terminated, block, tokens, native_bal, u128_max, last>>

\* ------------------------------------------------- integer arithmetic

saturating_sub(a, b) == IF a >= b THEN a - b ELSE 0

saturating_mul(a, b) == IF a * b > u128_max THEN u128_max ELSE a * b

\* u128::saturating_div panics when the divisor is zero.
saturating_div(a, b) == IF b = 0 THEN Panic ELSE a \div b

max(a, b) == IF a >= b THEN a ELSE b

\* ------------------------------------------------------ price schedule

\* linear_decrease with the end of the window tested by > instead of >=.
linear_decrease_end_exclusive(x_start, y_start, x_end, y_end, x) ==
    LET steps == saturating_sub(x, x_start)
        x_span == saturating_sub(x_end, x_start)
        y_span == saturating_sub(y_start, y_end)
    IN  IF x > x_end THEN y_end
        ELSE IF x <= x_start THEN y_start
        ELSE IF y_span > x_span
             THEN LET y_per_x == saturating_div(y_span, x_span)
                  IN  IF y_per_x = Panic THEN Panic
                      ELSE saturating_sub(y_start, saturating_mul(steps, y_per_x))
             ELSE LET x_per_y == saturating_div(x_span, y_span)
                  IN  IF x_per_y = Panic THEN Panic
                      ELSE LET q == saturating_div(steps, x_per_y)
                           IN  IF q = Panic THEN Panic
                               ELSE saturating_sub(y_start, q)

\* linear_decrease whose steep branch divides x_span by y_span.
linear_decrease_ratio_inverted(x_start, y_start, x_end, y_end, x) ==
    LET steps == saturating_sub(x, x_start)
        x_span == saturating_sub(x_end, x_start)
        y_span == saturating_sub(y_start, y_end)
    IN  IF x >= x_end THEN y_end
        ELSE IF x <= x_start THEN y_start
        ELSE IF y_span > x_span
             THEN LET y_per_x == saturating_div(x_span, y_span)
                  IN  IF y_per_x = Panic THEN Panic
                      ELSE saturating_sub(y_start, saturating_mul(steps, y_per_x))
             ELSE LET x_per_y == saturating_div(x_span, y_span)
                  IN  IF x_per_y = Panic THEN Panic
                      ELSE LET q == saturating_div(steps, x_per_y)
                           IN  IF q = Panic THEN Panic
                               ELSE saturating_sub(y_start, q)

linear_decrease(x_start, y_start, x_end, y_end, x) ==
    LET steps == saturating_sub(x, x_start)
        x_span == saturating_sub(x_end, x_start)
        y_span == saturating_sub(y_start, y_end)
    IN  IF x >= x_end THEN y_end
        ELSE IF x <= x_start THEN y_start
        ELSE IF y_span > x_span
             THEN LET y_per_x == saturating_div(y_span, x_span)
                  IN  IF y_per_x = Panic THEN Panic
                      ELSE saturating_sub(y_start, saturating_mul(steps, y_per_x))
             ELSE LET x_per_y == saturating_div(x_span, y_span)
                  IN  IF x_per_y = Panic THEN Panic
                      ELSE LET q == saturating_div(steps, x_per_y)
                           IN  IF q = Panic THEN Panic
                               ELSE saturating_sub(y_start, q)

\* current_price without its .max(self.min_price).
current_price_at_no_floor(now) ==
    linear_decrease(start_time, start_price, end_time, min_price, now)

\* current_price with the block number as a parameter.
current_price_at(now) ==
    LET y == linear_decrease(start_time, start_price, end_time, min_price, now)
    IN  IF y = Panic THEN Panic ELSE max(y, min_price)

current_price == current_price_at(block)

\* The message price().
price == current_price

\* ------------------------------------------------------- PSP22 tokens

\* bal with value moved from one account to another.
moved(bal, from, to, value) ==
    [a \in DOMAIN bal |->
        bal[a] - (IF a = from THEN value ELSE 0) + (IF a = to THEN value ELSE 0)]

\* PSP22::transfer called by `from`: fails when its balance is too small.
psp22_transfer(bal, from, to, value) ==
    IF bal[from] < value
    THEN [ok |-> FALSE, bal |-> bal]
    ELSE [ok |-> TRUE, bal |-> moved(bal, from, to, value)]

\* PSP22::transfer_from called by the auction: needs the allowance `from` gave
\* to the auction and the balance of `from`, and uses up the allowance.
psp22_transfer_from(bal, allow, from, to, value) ==
    IF allow[from] < value \/ bal[from] < value
    THEN [ok |-> FALSE, bal |-> bal, allow |-> allow]
    ELSE [ok |-> TRUE, bal |-> moved(bal, from, to, value),
          allow |-> [allow EXCEPT ![from] = @ - value]]

\* ------------------------------------------------------------ messages

\* The effects of the running message, not yet committed by the host.
effects ==
    [min_price |-> min_price, end_time |-> end_time, terminated |-> terminated,
     asset_bal |-> asset_bal, pay_bal |-> pay_bal, pay_allow |-> pay_allow,
     native_bal |-> native_bal,
     events |-> <<>>, calls |-> <<>>, paid |-> 0]

Return(result, eff) == [result |-> result, eff |-> eff]

\* check_owner that lets every account pass.
check_owner_anyone(account) == "Ok"

check_owner(account) ==
    IF account # auction_owner THEN "NotAuctionOwner" ELSE "Ok"

asset_balance == asset_bal[auction_owner]

\* The message available_asset().
available_asset == asset_balance

\* take_payment that answers Ok when the token call failed.
take_payment_error_dropped(eff, from, amount) ==
    LET call == psp22_transfer_from(eff.pay_bal, eff.pay_allow,
                                    from, auction_owner, amount)
        e == [eff EXCEPT !.calls = Append(@, "payment_token.transfer_from")]
    IN  IF call.ok
        THEN Return("Ok", [e EXCEPT !.pay_bal = call.bal,
                                    !.pay_allow = call.allow,
                                    !.paid = amount])
        ELSE Return("Ok", e)

\* take_payment that sends the payment to the contract's own account.
take_payment_to_contract(eff, from, amount) ==
    LET call == psp22_transfer_from(eff.pay_bal, eff.pay_allow,
                                    from, AUCTION, amount)
        e == [eff EXCEPT !.calls = Append(@, "payment_token.transfer_from")]
    IN  IF call.ok
        THEN Return("Ok", [e EXCEPT !.pay_bal = call.bal,
                                    !.pay_allow = call.allow,
                                    !.paid = amount])
        ELSE Return("PSP22TokenCall", e)

take_payment(eff, from, amount) ==
    LET call == psp22_transfer_from(eff.pay_bal, eff.pay_allow,
                                    from, auction_owner, amount)
        e == [eff EXCEPT !.calls = Append(@, "payment_token.transfer_from")]
    IN  IF call.ok
        THEN Return("Ok", [e EXCEPT !.pay_bal = call.bal,
                                    !.pay_allow = call.allow,
                                    !.paid = amount])
        ELSE Return("PSP22TokenCall", e)

\* give_asset that answers Ok when the token call failed.
give_asset_error_dropped(eff, to, amount) ==
    LET call == psp22_transfer(eff.asset_bal, AUCTION, to, amount)
        e == [eff EXCEPT !.calls = Append(@, "asset_token.transfer")]
    IN  Return("Ok", [e EXCEPT !.asset_bal = call.bal])

give_asset(eff, to, amount) ==
    LET call == psp22_transfer(eff.asset_bal, AUCTION, to, amount)
        e == [eff EXCEPT !.calls = Append(@, "asset_token.transfer")]
    IN  IF call.ok
        THEN Return("Ok", [e EXCEPT !.asset_bal = call.bal])
        ELSE Return("PSP22TokenCall", e)

AssetBought(by, p, amount) == [by |-> by, price |-> p, amount |-> amount]

set_min_price(caller, value) ==
    IF check_owner(caller) # "Ok"
    THEN Return(check_owner(caller), effects)
    ELSE Return("Ok", [effects EXCEPT !.min_price = value])

\* set_end_time that stores its argument in min_price.
set_end_time_into_min_price(caller, t) ==
    IF check_owner(caller) # "Ok"
    THEN Return(check_owner(caller), effects)
    ELSE Return("Ok", [effects EXCEPT !.min_price = t])

set_end_time(caller, t) ==
    IF check_owner(caller) # "Ok"
    THEN Return(check_owner(caller), effects)
    ELSE Return("Ok", [effects EXCEPT !.end_time = t])

\* The supply check of buy without its amount < 1.
insufficient_supply_zero_allowed(amount) == available_asset < amount

\* The supply check of buy.
insufficient_supply(amount) == available_asset < amount \/ amount < 1

\* The max_price check of buy made on the unit price, not on the total.
exceeds_max_unit_price(p, max_price) ==
    max_price # None /\ current_price > max_price[1]

\* The max_price check of buy; p is the total for the amount.
exceeds_max(p, max_price) == max_price # None /\ p > max_price[1]

buy(caller, amount, max_price) ==
    IF insufficient_supply(amount)
    THEN Return("InsufficientSupplyToken", effects)
    ELSE IF current_price = Panic
    THEN Return("Trapped", effects)
    ELSE
      LET p == saturating_mul(current_price, amount)
      IN  IF exceeds_max(p, max_price)
          THEN Return("MaxPriceExceeded", effects)
          ELSE
            LET pay == take_payment(effects, caller, p)
            IN  IF pay.result # "Ok" THEN pay
                ELSE
                  LET give == give_asset(pay.eff, caller, amount)
                  IN  IF give.result # "Ok" THEN give
                      ELSE Return("Ok",
                             [give.eff EXCEPT
                                !.events = Append(@, AssetBought(caller, p, amount))])

\* terminate that answers Ok to the owner without removing the contract.
terminate_contract_kept(caller) ==
    IF check_owner(caller) # "Ok"
    THEN Return(check_owner(caller), effects)
    ELSE Return("Ok", effects)

terminate(caller) ==
    IF check_owner(caller) # "Ok"
    THEN Return(check_owner(caller), effects)
    ELSE Return("Ok", [effects EXCEPT
                         !.terminated = TRUE,
                         !.native_bal = moved(@, AUCTION, caller, @[AUCTION])])

\* The host runs one message of the contract: what a message that returns Ok
\* did is committed, what a message that returns Err or traps did is reverted.
ink_message(r) ==
    IF r.result = "Ok"
    THEN r.eff
    ELSE [effects EXCEPT !.calls = r.eff.calls]

Message(op, caller, arg, max_price, r) ==
    LET eff == ink_message(r)
    IN  /\ ~terminated
        /\ min_price' = eff.min_price
        /\ end_time' = eff.end_time
        /\ terminated' = eff.terminated
        /\ asset_bal' = eff.asset_bal
        /\ pay_bal' = eff.pay_bal
        /\ pay_allow' = eff.pay_allow
        /\ native_bal' = eff.native_bal
        /\ last' = [op |-> op, caller |-> caller, arg |-> arg,
                    max_price |-> max_price, result |-> r.result,
                    paid |-> eff.paid, events |-> eff.events, calls |-> eff.calls]
        /\ UNCHANGED <<auction_owner, asset_token, payment_token,
                       start_price, start_time, block, u128_max>>

\* ------------------------------------------------------------- actions

SetMinPrice(values) ==
    \E caller \in Callers, value \in values :
        Message("set_min_price", caller, value, None, set_min_price(caller, value))

SetEndTime(times) ==
    \E caller \in Callers, t \in times :
        Message("set_end_time", caller, t, None, set_end_time(caller, t))

Buy ==
    \E caller \in Callers, amount \in Amounts, max_price \in MaxOpts :
        Message("buy", caller, amount, max_price, buy(caller, amount, max_price))

Terminate ==
    \E caller \in Callers :
        Message("terminate", caller, 0, None, terminate(caller))

\* The chain produces the next block.
AdvanceBlock(limit) ==
    /\ block < limit
    /\ block' = block + 1
    /\ UNCHANGED <<storage, terminated, tokens, native_bal, u128_max, last>>

\* The state after new(asset_token, payment_token, start_price, min_price,
\* end_time) called by OWNER at block `block`; the two tokens exist already.
new(width, start_prices, min_prices, starts, times) ==
    /\ u128_max = width
    /\ auction_owner = OWNER
    /\ asset_token = "asset_token"
    /\ payment_token = "payment_token"
    /\ start_price \in start_prices
    /\ min_price \in min_prices
    /\ block \in starts
    /\ start_time = block
    /\ end_time \in times
    /\ terminated = FALSE
    /\ native_bal = [a \in Accounts |-> IF a = AUCTION THEN 1 ELSE 0]
    /\ last = [op |-> "new", caller |-> OWNER, arg |-> 0, max_price |-> None,
               result |-> "Ok", paid |-> 0, events |-> <<>>, calls |-> <<>>]

\* The contract with its tokens, constructed at block 0.  Of the asset token
\* the owner and the contract's own account hold MaxAmount each, or the owner
\* one less; ALICE holds every payment token or just 1, and has
\* approved the auction for all of them or for just 1.
Init ==
    /\ new(U128Max, Prices, Prices, {0}, Blocks)
    /\ asset_bal \in {[a \in Accounts |-> IF a = OWNER THEN o
                                          ELSE IF a = AUCTION THEN c ELSE 0] :
                        <<o, c>> \in {<<MaxAmount, MaxAmount>>,
                                      <<MaxAmount - 1, MaxAmount>>}}
    /\ \E b \in {<<U128Max, U128Max>>, <<1, U128Max>>, <<U128Max, 1>>} :
        /\ pay_bal = [a \in Accounts |-> IF a = ALICE THEN b[1] ELSE 0]
        /\ pay_allow = [c \in Callers |-> IF c = ALICE THEN b[2] ELSE U128Max]

Next ==
    \/ SetMinPrice(Prices)
    \/ SetEndTime(Blocks)
    \/ Buy
    \/ Terminate
    \/ AdvanceBlock(MaxBlock)

Spec == Init /\ [][Next]_vars

\* The schedule alone, over wider ranges of prices and blocks: the tokens
\* stay as they are and only the owner's setters and the chain act.
PriceInit ==
    /\ new(MaxSchedPrice, SchedPrices, SchedPrices, 0..MaxStart, SchedBlocks)
    /\ asset_bal = [a \in Accounts |-> IF a = OWNER THEN MaxAmount ELSE 0]
    /\ pay_bal = [a \in Accounts |-> IF a = ALICE THEN U128Max ELSE 0]
    /\ pay_allow = [c \in Callers |-> U128Max]

PriceNext ==
    \/ SetMinPrice(SchedPrices)
    \/ SetEndTime(SchedBlocks)
    \/ AdvanceBlock(MaxSchedBlock)

PriceSpec == PriceInit /\ [][PriceNext]_vars

\* The schedule start_price = 1000, min_price = 100, constructed at block 0
\* with end_time = 100, and u128 wide enough for its values.
ExampleInit ==
    /\ new(ExampleU128Max, {1000}, {100}, {0}, {100})
    /\ asset_bal = [a \in Accounts |-> IF a = OWNER THEN MaxAmount ELSE 0]
    /\ pay_bal = [a \in Accounts |-> IF a = ALICE THEN U128Max ELSE 0]
    /\ pay_allow = [c \in Callers |-> U128Max]

ExampleNext == AdvanceBlock(MaxExampleBlock)

ExampleSpec == ExampleInit /\ [][ExampleNext]_vars

\* -------------------------------------------------------------- claims

\* A step is a call of message `op`: messages leave the block number alone,
\* and the chain's step leaves `last` alone.
Call(op) == block' = block /\ last'.op = op

\* What buy(amount, _) charges in the current state (Panic: it traps).
total(amount) ==
    IF current_price = Panic THEN Panic ELSE saturating_mul(current_price, amount)

PassesSupplyCheck(amount) == amount >= 1 /\ amount <= available_asset

\* C1: a buy(amount, Some(max)) that passes the supply check and whose total
\* current_price() * amount exceeds max returns MaxPriceExceeded, calls neither
\* token and emits nothing; a successful buy with Some(max) takes at most max
\* payment tokens from the buyer.
C1_MaxPriceRespected ==
    [][(Call("buy") /\ last'.max_price # None /\ PassesSupplyCheck(last'.arg)) =>
        /\ (total(last'.arg) # Panic /\ total(last'.arg) > last'.max_price[1]) =>
              /\ last'.result = "MaxPriceExceeded"
              /\ last'.calls = <<>>
              /\ last'.events = <<>>
              /\ UNCHANGED tokens
        /\ last'.result = "Ok" =>
              /\ last'.paid <= last'.max_price[1]
              /\ pay_bal[last'.caller] - pay_bal'[last'.caller] <= last'.max_price[1]
      ]_vars

\* C1 witness: a buy was refused with MaxPriceExceeded although the unit price
\* was within max: the total for the amount exceeded it.
C1_Witness ==
    /\ last.op = "buy" /\ last.result = "MaxPriceExceeded"
    /\ price # Panic /\ price <= last.max_price[1]
    /\ saturating_mul(price, last.arg) > last.max_price[1]

\* C2: a buy that returns an error (or traps) leaves every balance, every
\* allowance and all auction state as before the call, and emits no event;
\* and a buy never collects payment without delivering the asset.
C2_BuyAtomic ==
    [][Call("buy") =>
        /\ last'.result # "Ok" =>
              /\ UNCHANGED <<storage, terminated, tokens, native_bal>>
              /\ last'.events = <<>>
              /\ last'.paid = 0
        /\ (pay_bal' # pay_bal \/ pay_allow' # pay_allow \/ last'.paid > 0) =>
              /\ last'.result = "Ok"
              /\ asset_bal' = moved(asset_bal, AUCTION, last'.caller, last'.arg)
      ]_vars

\* C2 witness: a buy failed in the asset transfer, after its payment transfer
\* had succeeded.
C2_Witness ==
    /\ last.op = "buy" /\ last.result = "PSP22TokenCall"
    /\ last.calls = <<"payment_token.transfer_from", "asset_token.transfer">>

\* C3: set_min_price, set_end_time and terminate called by anyone but the owner
\* return NotAuctionOwner and change nothing.
C3_OwnerOnly ==
    [][((Call("set_min_price") \/ Call("set_end_time") \/ Call("terminate"))
          /\ last'.caller # auction_owner) =>
        /\ last'.result = "NotAuctionOwner"
        /\ UNCHANGED <<storage, terminated, tokens, native_bal>>
      ]_vars

\* C3 witness: ALICE called terminate and the contract is still there.
C3_Witness ==
    /\ last.op = "terminate" /\ last.caller = ALICE
    /\ last.result = "NotAuctionOwner" /\ ~terminated

\* C4 (as claimed): a buy with 1 <= amount <= available_asset(), a total
\* within max_price if one is given, and a caller who holds the total and has
\* approved the auction for it, returns Ok.
C4_BuySucceeds ==
    [][(/\ Call("buy")
        /\ PassesSupplyCheck(last'.arg)
        /\ total(last'.arg) # Panic
        /\ (last'.max_price # None => total(last'.arg) <= last'.max_price[1])
        /\ pay_bal[last'.caller] >= total(last'.arg)
        /\ pay_allow[last'.caller] >= total(last'.arg))
       => last'.result = "Ok"
      ]_vars

\* C5 (as claimed): available_asset() is the asset-token balance the auction
\* contract itself holds.
C5_AvailableIsContractBalance == available_asset = asset_bal[AUCTION]

\* C6: buy returns InsufficientSupplyToken whenever amount = 0 or amount >
\* available_asset(), whatever max_price is, and then calls neither token and
\* emits nothing.
C6_SupplyCheckFirst ==
    [][(Call("buy") /\ ~PassesSupplyCheck(last'.arg)) =>
        /\ last'.result = "InsufficientSupplyToken"
        /\ last'.calls = <<>>
        /\ last'.events = <<>>
        /\ UNCHANGED tokens
      ]_vars

\* C6 witness: a buy of a positive amount was refused with
\* InsufficientSupplyToken although its total also exceeded the max_price given.
C6_Witness ==
    /\ last.op = "buy" /\ last.result = "InsufficientSupplyToken"
    /\ last.arg > available_asset /\ last.max_price # None
    /\ price # Panic /\ saturating_mul(price, last.arg) > last.max_price[1]

\* C7 (as claimed): in every reachable state price() returns a value that is
\* at least min_price.
C7_PriceAtLeastMin == price # Panic /\ price >= min_price

\* Whenever price() returns a value, the value is at least min_price.
PriceFloorWhenReturned ==
    \A x \in SchedBlocks :
        current_price_at(x) # Panic => current_price_at(x) >= min_price

\* C8: at every block number x >= end_time the price is min_price exactly.
C8_FloorFromEndTime ==
    \A x \in SchedBlocks : x >= end_time => current_price_at(x) = min_price

\* C8 witness: the chain is past end_time, start_price is above min_price and
\* the schedule had room to decrease.
C8_Witness ==
    /\ block > end_time /\ end_time > start_time + 1
    /\ start_price > min_price /\ price = min_price

\* C9 (as claimed): at every block number x <= start_time the price is
\* start_price, whatever start_price, min_price and end_time are.
C9_StartPriceUntilStart ==
    \A x \in SchedBlocks : x <= start_time => current_price_at(x) = start_price

\* C9 (amended): at every block number x <= start_time that is below end_time
\* the price is the larger of start_price and min_price, so it is start_price
\* whenever min_price <= start_price.
C9_StartPriceBeforeEnd ==
    \A x \in SchedBlocks :
        (x <= start_time /\ x < end_time) =>
            /\ current_price_at(x) = max(start_price, min_price)
            /\ (min_price <= start_price => current_price_at(x) = start_price)

\* C9 witness: at the construction block of a schedule that ends later and
\* decreases, the price is start_price.
C9_Witness ==
    /\ block = start_time /\ start_time > 0 /\ start_time < end_time
    /\ start_price > min_price /\ price = start_price

\* C10 (as claimed): for block numbers x1 <= x2 inside the window (start_time,
\* end_time) the price at x2 is a value no larger than the price at x1.
C10_PriceNeverRises ==
    \A x1, x2 \in SchedBlocks :
        (x1 <= x2 /\ start_time < x1 /\ x2 < end_time) =>
            /\ current_price_at(x1) # Panic
            /\ current_price_at(x2) # Panic
            /\ current_price_at(x2) <= current_price_at(x1)

\* Whenever the price is returned at two blocks of the window, the later one
\* is no larger.
PriceNeverRisesWhenReturned ==
    \A x1, x2 \in SchedBlocks :
        (/\ x1 <= x2 /\ start_time < x1 /\ x2 < end_time
         /\ current_price_at(x1) # Panic /\ current_price_at(x2) # Panic)
        => current_price_at(x2) <= current_price_at(x1)

\* C11 (as claimed): at every block number x with start_time < x < end_time
\* the price is a value between min_price and start_price.
C11_PriceWithinBounds ==
    \A x \in SchedBlocks :
        (start_time < x /\ x < end_time) =>
            /\ current_price_at(x) # Panic
            /\ current_price_at(x) >= min_price
            /\ current_price_at(x) <= start_price

\* Whenever the price is returned at a block of the window, it lies between
\* min_price and start_price.
PriceWithinBoundsWhenReturned ==
    \A x \in SchedBlocks :
        (start_time < x /\ x < end_time /\ current_price_at(x) # Panic) =>
            /\ current_price_at(x) >= min_price
            /\ current_price_at(x) <= start_price

\* C16 (as claimed): the price computation returns a value at every block
\* number, whatever the schedule is: no division by zero is reached.
C16_PriceAlwaysDefined ==
    \A x \in SchedBlocks : current_price_at(x) # Panic

\* C12: a terminate() that succeeded has removed the contract, and from then
\* on the contract stays removed: no message executes, so no stored field,
\* token balance, allowance or native balance changes and no call or event
\* is recorded any more.
C12_TerminationIrreversible ==
    [][ /\ (Call("terminate") /\ last'.result = "Ok") =>
              (last'.caller = auction_owner /\ terminated')
        /\ terminated =>
              (terminated' /\ UNCHANGED <<storage, tokens, native_bal, last>>)
      ]_vars

\* C12 witness: the owner has terminated the contract, the native balance of
\* the contract has gone to the owner and the chain has moved on.
C12_Witness ==
    /\ terminated /\ last.op = "terminate" /\ last.caller = auction_owner
    /\ native_bal[AUCTION] = 0 /\ native_bal[OWNER] > 0 /\ block = MaxBlock

\* C13: for the schedule start_price = 1000, min_price = 100, start_time = 0,
\* end_time = 100, price() is 1000 at block 0, 550 at block 50, and 100 at
\* block 100 and at every later block.
C13_ExampleSchedule ==
    /\ block = 0 => price = 1000
    /\ block = 50 => price = 550
    /\ block >= 100 => price = 100

\* C13 witness: the chain is at block 50 of that schedule, price() is 550.
C13_Witness ==
    /\ start_price = 1000 /\ min_price = 100 /\ start_time = 0 /\ end_time = 100
    /\ block = 50 /\ price = 550

\* The payment transfer of a buy(amount, _) by caller succeeds in the current
\* state.
PaymentSucceeds(caller, amount) ==
    /\ total(amount) # Panic
    /\ psp22_transfer_from(pay_bal, pay_allow, caller, auction_owner,
                           total(amount)).ok

\* The asset transfer of a buy(amount, _) by caller succeeds in the current
\* state.
AssetSucceeds(caller, amount) ==
    psp22_transfer(asset_bal, AUCTION, caller, amount).ok

\* C14: a buy calls the tokens in a fixed order, payment_token.transfer_from
\* first and asset_token.transfer second; it calls asset_token.transfer only
\* when the payment transfer has succeeded, and emits AssetBought only when
\* both transfers have succeeded.  This is about the calls the buy makes,
\* whether or not the host reverts them afterwards.
C14_PaymentBeforeAsset ==
    [][Call("buy") =>
        /\ last'.calls \in {<<>>,
                            <<"payment_token.transfer_from">>,
                            <<"payment_token.transfer_from", "asset_token.transfer">>}
        /\ Len(last'.calls) = 2 => PaymentSucceeds(last'.caller, last'.arg)
        /\ Len(last'.calls) = 1 => ~PaymentSucceeds(last'.caller, last'.arg)
        /\ last'.events # <<>> =>
              /\ Len(last'.calls) = 2
              /\ PaymentSucceeds(last'.caller, last'.arg)
              /\ AssetSucceeds(last'.caller, last'.arg)
      ]_vars

\* C14 witness: the payment transfer of a buy failed, and the buy made no call
\* to the asset token.
C14_Witness ==
    /\ last.op = "buy" /\ last.result = "PSP22TokenCall"
    /\ last.calls = <<"payment_token.transfer_from">>

\* C15: a successful buy(amount, _) by caller c moves total = current_price()
\* * amount (saturating) payment tokens from c to auction_owner, moves amount
\* asset tokens from the contract's own account to c and emits exactly one
\* AssetBought with by = c, price = total and amount; no other balance, no
\* native balance and no stored field changes.
C15_BuyEffects ==
    [][(Call("buy") /\ last'.result = "Ok") =>
        /\ total(last'.arg) # Panic
        /\ last'.paid = total(last'.arg)
        /\ pay_bal' = moved(pay_bal, last'.caller, auction_owner, total(last'.arg))
        /\ asset_bal' = moved(asset_bal, AUCTION, last'.caller, last'.arg)
        /\ last'.events =
              <<AssetBought(last'.caller, total(last'.arg), last'.arg)>>
        /\ UNCHANGED <<storage, terminated, native_bal>>
      ]_vars

\* C15 witness: ALICE has bought more than one asset token at a total that
\* saturated, paid to the owner.
C15_Witness ==
    /\ last.op = "buy" /\ last.result = "Ok" /\ last.caller = ALICE
    /\ last.arg > 1 /\ price # Panic /\ price * last.arg > u128_max
    /\ last.paid = u128_max /\ pay_bal[auction_owner] = u128_max
    /\ asset_bal[ALICE] = last.arg

\* C17: start_time is the block the contract is constructed at, and no
\* step changes auction_owner, asset_token, payment_token, start_price or
\* start_time; min_price changes only in a successful set_min_price by the
\* owner, end_time only in a successful set_end_time by the owner, and after
\* such a call the field is exactly the value supplied; a buy, successful or
\* not, changes no stored field.
C17_StoredFieldsFrame ==
    /\ start_time = block
    /\ [][ /\ UNCHANGED <<auction_owner, asset_token, payment_token,
                          start_price, start_time>>
           /\ min_price' # min_price =>
                 /\ Call("set_min_price") /\ last'.result = "Ok"
                 /\ last'.caller = auction_owner
           /\ end_time' # end_time =>
                 /\ Call("set_end_time") /\ last'.result = "Ok"
                 /\ last'.caller = auction_owner
           /\ (Call("set_min_price") /\ last'.result = "Ok") =>
                 min_price' = last'.arg
           /\ (Call("set_end_time") /\ last'.result = "Ok") =>
                 end_time' = last'.arg
           /\ Call("buy") => UNCHANGED storage
         ]_vars

\* C17 witness: the owner has set min_price to a value above start_price, and
\* min_price is that value.
C17_Witness ==
    /\ last.op = "set_min_price" /\ last.result = "Ok"
    /\ last.caller = auction_owner /\ last.arg > start_price
    /\ min_price = last.arg

\* The straight line from (start_time, start_price) to (end_time, min_price)
\* at block number x, rounded down; for start_price > min_price and
\* start_time < x < end_time.
exact_line(x) ==
    LET num == (x - start_time) * (start_price - min_price)
        den == end_time - start_time
    IN  start_price - ((num + den - 1) \div den)

\* C18 (as claimed): for start_price > min_price and every block number x with
\* start_time < x < end_time the price is at least the straight line at x
\* rounded down.
C18_NeverUndercutsLine ==
    \A x \in SchedBlocks :
        (start_price > min_price /\ start_time < x /\ x < end_time) =>
            /\ current_price_at(x) # Panic
            /\ current_price_at(x) >= exact_line(x)

\* C19 (as claimed, for the values linear_decrease returns): with min_price <=
\* start_price, linear_decrease without the floor of current_price returns, at
\* every block number where it returns, a value between min_price and
\* start_price.
C19_DecreaseStaysInRange ==
    \A x \in SchedBlocks :
        (min_price <= start_price /\ current_price_at_no_floor(x) # Panic) =>
            /\ current_price_at_no_floor(x) >= min_price
            /\ current_price_at_no_floor(x) <= start_price

====
